---- MODULE Spec2Model ----
(***************************************************************************)
(* A model of uhlc's NTP64 timestamp (src/src/ntp64.rs): a 64-bit value    *)
(* whose upper 32 bits count seconds and whose lower 32 bits are a binary  *)
(* fraction of a second, with its accessors, conversions, arithmetic and   *)
(* string codecs.                                                          *)
(*                                                                         *)
(* TLC's integers are 32 bits wide, so a u64 is held at its real width as  *)
(* a little-endian sequence of 16-bit limbs without high zero limbs (zero  *)
(* is <<>>).  Values that the code keeps below 2^31 (nanoseconds, calendar *)
(* fields) are plain integers.                                             *)
(***************************************************************************)
EXTENDS Integers, Sequences, FiniteSets, TLC

VARIABLES
    std,              \* cfg(feature = "std") of the build
    overflow_checks,  \* the build panics on integer overflow (debug profile)
    t,                \* the timestamp the operation is called on: NTP64(t)
    op,               \* the operation that has run ("none" before any)
    arg,              \* its argument
    res               \* its outcome: [kind |-> "ok" | "err" | "panic", val |-> ...]

vars == <<std, overflow_checks, t, op, arg, res>>

(***************************************************************************)
(* Multi-limb naturals                                                     *)
(***************************************************************************)
Base == 2^16

RECURSIVE Norm(_)
Norm(a) == IF a = <<>> THEN <<>>
           ELSE IF a[Len(a)] = 0 THEN Norm(SubSeq(a, 1, Len(a) - 1))
           ELSE a

Limb(a, i) == IF i <= Len(a) THEN a[i] ELSE 0

\* a natural below 2^31 as limbs, and back
FromInt(n) == Norm(<<n % Base, n \div Base>>)
ToInt(a) == Limb(a, 1) + Limb(a, 2) * Base

RECURSIVE AddLimbs(_, _, _)
AddLimbs(a, b, c) ==
    IF a = <<>> /\ b = <<>> THEN (IF c = 0 THEN <<>> ELSE <<c>>)
    ELSE LET s  == Limb(a, 1) + Limb(b, 1) + c
             ta == IF a = <<>> THEN <<>> ELSE Tail(a)
             tb == IF b = <<>> THEN <<>> ELSE Tail(b)
         IN  <<s % Base>> \o AddLimbs(ta, tb, s \div Base)

BigAdd(a, b) == Norm(AddLimbs(a, b, 0))

\* a - b for a >= b
RECURSIVE SubLimbs(_, _, _)
SubLimbs(a, b, c) ==
    IF a = <<>> THEN <<>>
    ELSE LET d  == a[1] - Limb(b, 1) - c
             tb == IF b = <<>> THEN <<>> ELSE Tail(b)
         IN  <<d % Base>> \o SubLimbs(Tail(a), tb, IF d < 0 THEN 1 ELSE 0)

BigSub(a, b) == Norm(SubLimbs(a, b, 0))

\* -1, 0, 1 as a is below, equal to, above b (most significant limb first)
RECURSIVE CmpFrom(_, _, _)
CmpFrom(a, b, i) ==
    IF i = 0 THEN 0
    ELSE IF a[i] < b[i] THEN -1
    ELSE IF a[i] > b[i] THEN 1
    ELSE CmpFrom(a, b, i - 1)

BigCmp(a, b) ==
    IF Len(a) < Len(b) THEN -1
    ELSE IF Len(a) > Len(b) THEN 1
    ELSE CmpFrom(a, b, Len(a))

BigLt(a, b) == BigCmp(a, b) = -1
BigLe(a, b) == BigCmp(a, b) # 1

\* a * m for 0 <= m < 2^15
RECURSIVE MulLimbs(_, _, _)
MulLimbs(a, m, c) ==
    IF a = <<>> THEN (IF c = 0 THEN <<>> ELSE <<c>>)
    ELSE LET p == a[1] * m + c
         IN  <<p % Base>> \o MulLimbs(Tail(a), m, p \div Base)

BigMulSmall(a, m) == Norm(MulLimbs(a, m, 0))

\* quotient and remainder of a by d, 0 < d < 2^15 (most significant limb first)
RECURSIVE DivLimbs(_, _, _, _)
DivLimbs(a, d, i, r) ==
    IF i = 0 THEN [q |-> <<>>, r |-> r]
    ELSE LET cur  == r * Base + a[i]
             rest == DivLimbs(a, d, i - 1, cur % d)
         IN  [q |-> rest.q \o <<cur \div d>>, r |-> rest.r]

BigDivSmall(a, d) ==
    LET x == DivLimbs(a, d, Len(a), 0) IN [q |-> Norm(x.q), r |-> x.r]

\* a * 2^(16k), a \div 2^(16k), a % 2^(16k)
BigShl(a, k) == IF a = <<>> THEN <<>> ELSE [i \in 1..k |-> 0] \o a
BigShr(a, k) == IF Len(a) <= k THEN <<>> ELSE SubSeq(a, k + 1, Len(a))
BigLow(a, k) == IF Len(a) <= k THEN a ELSE Norm(SubSeq(a, 1, k))

\* 2^64, and the value an unchecked u64 operation keeps of an exact result
TWO64 == <<0, 0, 0, 0, 1>>
FitsU64(a) == Len(a) <= 4
Wrap64(a) == BigLow(a, 4)

(***************************************************************************)
(* Constants of ntp64.rs                                                   *)
(***************************************************************************)
\* (1u64 << 32) - 1
MAX_NB_SEC == <<65535, 65535>>
\* 1u64 << 32
FRAC_PER_SEC == <<0, 0, 1>>
\* 0xFFFF_FFFF
FRAC_MASK == <<65535, 65535>>
NANO_PER_SEC == 1000000000

\* x * NANO_PER_SEC and x / NANO_PER_SEC in three steps of 1000
MulNanoPerSec(x) == BigMulSmall(BigMulSmall(BigMulSmall(x, 1000), 1000), 1000)
DivNanoPerSec(x) ==
    BigDivSmall(BigDivSmall(BigDivSmall(x, 1000).q, 1000).q, 1000).q
\* x * FRAC_PER_SEC and x / FRAC_PER_SEC
MulFracPerSec(x) == BigShl(x, 2)
DivFracPerSec(x) == BigShr(x, 2)
\* x & FRAC_MASK, x >> 32, x << 32
AndFracMask(x) == BigLow(x, 2)
Shr32(x) == BigShr(x, 2)
Shl32(x) == BigShl(x, 2)

(***************************************************************************)
(* Outcomes.  An operation returns a value ("ok"), returns a               *)
(* ParseNTP64Error ("err", val the cause) or panics ("panic").  ovf tells  *)
(* that a u64 operation inside it left the range 0 .. 2^64 - 1.            *)
(***************************************************************************)
Ok(v) == [kind |-> "ok", val |-> v, ovf |-> FALSE]
Err(cause) == [kind |-> "err", val |-> cause, ovf |-> FALSE]
Panic(why) == [kind |-> "panic", val |-> why, ovf |-> FALSE]

\* The primitive u64 `+` and `-`: the exact result when it is in range;
\* otherwise a panic in a build with overflow checks, and the result modulo
\* 2^64 in a build without.
u64_add(checks, x, y) ==
    LET exact == BigAdd(x, y)
    IN  IF FitsU64(exact) THEN Ok(exact)
        ELSE IF checks THEN [Panic("attempt to add with overflow") EXCEPT !.ovf = TRUE]
        ELSE [Ok(Wrap64(exact)) EXCEPT !.ovf = TRUE]

u64_sub(checks, x, y) ==
    IF BigLe(y, x) THEN Ok(BigSub(x, y))
    ELSE IF checks THEN [Panic("attempt to subtract with overflow") EXCEPT !.ovf = TRUE]
    ELSE [Ok(BigSub(BigAdd(x, TWO64), y)) EXCEPT !.ovf = TRUE]

u64_mul_frac_per_sec(checks, x) ==
    LET exact == MulFracPerSec(x)
    IN  IF FitsU64(exact) THEN Ok(exact)
        ELSE IF checks THEN [Panic("attempt to multiply with overflow") EXCEPT !.ovf = TRUE]
        ELSE [Ok(Wrap64(exact)) EXCEPT !.ovf = TRUE]

u64_mul_nano_per_sec(checks, x) ==
    LET exact == MulNanoPerSec(x)
    IN  IF FitsU64(exact) THEN Ok(exact)
        ELSE IF checks THEN [Panic("attempt to multiply with overflow") EXCEPT !.ovf = TRUE]
        ELSE [Ok(Wrap64(exact)) EXCEPT !.ovf = TRUE]

\* outcome r of an expression one of whose earlier steps overflowed iff o
WithOvf(r, o) == [r EXCEPT !.ovf = r.ovf \/ o]

(***************************************************************************)
(* Accessors and conversions                                               *)
(***************************************************************************)
as_u64(self) == self

\* (self.0 >> 32) as u32
as_secs(self) == BigLow(Shr32(self), 2)

\* a conversion that keeps the microseconds only
subsec_nanos_whole_micros(checks, self) ==
    LET frac == AndFracMask(self)
    IN  Ok(ToInt(DivFracPerSec(BigMulSmall(BigMulSmall(frac, 1000), 1000))) * 1000)

\* ((frac * NANO_PER_SEC) / FRAC_PER_SEC) as u32, as an integer
subsec_nanos_r(checks, self) ==
    LET frac == AndFracMask(self)
        p    == u64_mul_nano_per_sec(checks, frac)
    IN  IF p.kind # "ok" THEN p
        ELSE WithOvf(Ok(ToInt(BigLow(DivFracPerSec(p.val), 2))), p.ovf)

subsec_nanos(self) == subsec_nanos_r(FALSE, self).val

\* core::time::Duration::new: whole seconds of nanos carry into secs
Duration_new(secs, nanos) ==
    [secs  |-> BigAdd(secs, FromInt(nanos \div NANO_PER_SEC)),
     nanos |-> nanos % NANO_PER_SEC]

to_duration_r(checks, self) ==
    LET n == subsec_nanos_r(checks, self)
    IN  IF n.kind # "ok" THEN n
        ELSE WithOvf(Ok(Duration_new(as_secs(self), n.val)), n.ovf)

to_duration(self) == to_duration_r(FALSE, self).val

\* a conversion that scales by FRAC_MASK in place of FRAC_PER_SEC
from_Duration_scaled_by_mask(checks, duration) ==
    LET secs == duration.secs
    IN  IF ~BigLe(secs, MAX_NB_SEC)
        THEN Panic("assertion failed: secs <= MAX_NB_SEC")
        ELSE LET nanos == FromInt(duration.nanos)
                 frac  == DivNanoPerSec(BigSub(MulFracPerSec(nanos), nanos))
                 sum   == u64_add(checks, Wrap64(Shl32(secs)), frac)
                 inc   == u64_add(checks, sum.val, <<1>>)
             IN  IF sum.kind # "ok" THEN sum ELSE WithOvf(inc, sum.ovf)

\* a conversion that does not add 1
from_Duration_no_increment(checks, duration) ==
    LET secs == duration.secs
    IN  IF ~BigLe(secs, MAX_NB_SEC)
        THEN Panic("assertion failed: secs <= MAX_NB_SEC")
        ELSE LET nanos == FromInt(duration.nanos)
                 p     == u64_mul_frac_per_sec(checks, nanos)
                 sum   == u64_add(checks, Wrap64(Shl32(secs)), DivNanoPerSec(p.val))
             IN  IF p.kind # "ok" THEN p ELSE WithOvf(sum, p.ovf)

\* a conversion that asserts secs < MAX_NB_SEC
from_Duration_strict_assert(checks, duration) ==
    LET secs == duration.secs
    IN  IF ~BigLt(secs, MAX_NB_SEC)
        THEN Panic("assertion failed: secs < MAX_NB_SEC")
        ELSE LET nanos == FromInt(duration.nanos)
                 p     == u64_mul_frac_per_sec(checks, nanos)
                 sum   == u64_add(checks, Wrap64(Shl32(secs)), DivNanoPerSec(p.val))
                 inc   == u64_add(checks, sum.val, <<1>>)
             IN  IF p.kind # "ok" THEN p
                 ELSE IF sum.kind # "ok" THEN WithOvf(sum, p.ovf)
                 ELSE WithOvf(inc, p.ovf \/ sum.ovf)

\* impl From<Duration> for NTP64
from_Duration(checks, duration) ==
    LET secs == duration.secs
    IN  IF ~BigLe(secs, MAX_NB_SEC)
        THEN Panic("assertion failed: secs <= MAX_NB_SEC")
        ELSE LET nanos == FromInt(duration.nanos)
                 p     == u64_mul_frac_per_sec(checks, nanos)
                 sum   == u64_add(checks, Wrap64(Shl32(secs)), DivNanoPerSec(p.val))
                 inc   == u64_add(checks, sum.val, <<1>>)
             IN  IF p.kind # "ok" THEN p
                 ELSE IF sum.kind # "ok" THEN WithOvf(sum, p.ovf)
                 ELSE WithOvf(inc, p.ovf \/ sum.ovf)

(***************************************************************************)
(* Arithmetic                                                              *)
(***************************************************************************)
\* impl Add for NTP64, and the forms that take a reference and forward to it
add(checks, self, other) == u64_add(checks, self, other)
add_ref_val(checks, self, other) == add(checks, self, other)
add_val_ref(checks, self, other) == add(checks, self, other)
add_ref_ref(checks, self, other) == add(checks, self, other)
\* impl Add<u64>, impl AddAssign<u64>
add_u64(checks, self, other) == u64_add(checks, self, other)
add_assign(checks, self, other) == u64_add(checks, self, other)

\* impl Sub for NTP64, and the forms that take a reference and forward to it
sub(checks, self, other) == u64_sub(checks, self, other)
sub_ref_val(checks, self, other) == sub(checks, self, other)
sub_val_ref(checks, self, other) == sub(checks, self, other)
sub_ref_ref(checks, self, other) == sub(checks, self, other)
\* impl Sub<u64>, impl SubAssign<u64>
sub_u64(checks, self, other) == u64_sub(checks, self, other)
sub_assign(checks, self, other) == u64_sub(checks, self, other)

\* a comparison of the seconds alone
cmp_by_seconds(self, other) ==
    LET c == BigCmp(as_secs(self), as_secs(other))
    IN  IF c < 0 THEN "Less" ELSE IF c > 0 THEN "Greater" ELSE "Equal"

\* derive(PartialOrd, Ord, PartialEq, Eq) on NTP64(pub u64): the comparison
\* of the one field
cmp(self, other) ==
    LET c == BigCmp(self, other)
    IN  IF c < 0 THEN "Less" ELSE IF c > 0 THEN "Greater" ELSE "Equal"
eq(self, other) == self = other
lt(self, other) == cmp(self, other) = "Less"
gt(self, other) == cmp(self, other) = "Greater"

(***************************************************************************)
(* Strings are sequences of one-character strings.                         *)
(***************************************************************************)
DigitChars == <<"0", "1", "2", "3", "4", "5", "6", "7", "8", "9">>
IsDigit(c) == \E d \in 0..9 : DigitChars[d + 1] = c
DigitVal(c) == CHOOSE d \in 0..9 : DigitChars[d + 1] = c

\* n in decimal, at least `width` characters wide, filled with zeros
RECURSIVE Pad(_, _)
Pad(n, width) ==
    IF width <= 1 /\ n < 10 THEN <<DigitChars[n + 1]>>
    ELSE Pad(n \div 10, width - 1) \o <<DigitChars[(n % 10) + 1]>>

\* core::fmt::Display for u64: the decimal digits, no sign, no leading zero
RECURSIVE DecDigits(_)
DecDigits(x) ==
    IF x = <<>> THEN <<>>
    ELSE LET d == BigDivSmall(x, 10) IN DecDigits(d.q) \o <<DigitChars[d.r + 1]>>

fmt_u64(x) == IF x = <<>> THEN <<"0">> ELSE DecDigits(x)

\* core::str::FromStr for u64 (radix 10): an optional '+', then one or more
\* digits, accumulated with checked_mul(10) and checked_add(digit)
RECURSIVE ParseDigits(_, _)
ParseDigits(s, acc) ==
    IF s = <<>> THEN Ok(acc)
    ELSE IF ~IsDigit(Head(s)) THEN Err("InvalidDigit")
    ELSE LET m == BigMulSmall(acc, 10)
             n == BigAdd(m, FromInt(DigitVal(Head(s))))
         IN  IF ~FitsU64(m) \/ ~FitsU64(n) THEN Err("PosOverflow")
             ELSE ParseDigits(Tail(s), n)

u64_from_str(s) ==
    IF s = <<>> THEN Err("Empty")
    ELSE IF Len(s) = 1 /\ Head(s) \in {"+", "-"} THEN Err("InvalidDigit")
    ELSE IF Head(s) = "+" THEN ParseDigits(Tail(s), <<>>)
    ELSE ParseDigits(s, <<>>)

\* a parser that takes what is no u64 for the default timestamp
from_str_or_default(s) ==
    LET r == u64_from_str(s)
    IN  IF r.kind = "ok" THEN Ok(r.val) ELSE Ok(<<>>)

\* impl FromStr for NTP64
from_str(s) ==
    LET r == u64_from_str(s)
    IN  IF r.kind = "ok" THEN Ok(r.val)
        ELSE Err(<<"Invalid NTP64 time : '", s, "' (must be a u64)">>)

(***************************************************************************)
(* The calendar form.  A SystemTime is its offset from UNIX_EPOCH:         *)
(* [before, secs, nanos], before telling that it precedes the epoch.       *)
(* humantime's formatter and parser are modelled by what humantime 2.3    *)
(* computes.                                                               *)
(***************************************************************************)
UNIX_EPOCH == [before |-> FALSE, secs |-> <<>>, nanos |-> 0]

\* UNIX_EPOCH + self.to_duration()
to_system_time_r(checks, self) ==
    LET d == to_duration_r(checks, self)
    IN  IF d.kind # "ok" THEN d
        ELSE WithOvf(Ok([before |-> FALSE, secs |-> d.val.secs, nanos |-> d.val.nanos]),
                     d.ovf)

to_system_time(self) == to_system_time_r(FALSE, self).val

\* SystemTime::duration_since(UNIX_EPOCH)
duration_since_epoch(time) ==
    IF time.before THEN Err("second time provided was later than self")
    ELSE Ok([secs |-> time.secs, nanos |-> time.nanos])

\* 9999-12-31T23:59:59Z, the last second humantime formats and parses
MAX_RFC3339_SECONDS == <<16767, 65524, 58>>

MonthLengthsFromMarch == <<31, 30, 31, 30, 31, 31, 30, 31, 30, 31, 31, 29>>

\* the month (counted from March = 1) and day of month of the day `rem` of a
\* year that starts on 1 March
RECURSIVE MonthDay(_, _)
MonthDay(rem, mon) ==
    IF mon = 12 \/ rem < MonthLengthsFromMarch[mon] THEN [mon |-> mon, mday |-> rem + 1]
    ELSE MonthDay(rem - MonthLengthsFromMarch[mon], mon + 1)

\* year, month and day of the day `days` after 1970-01-01
CivilFromDays(days) ==
    LET d    == days - 11017  \* days since 2000-03-01
        qc   == d \div 146097
        r0   == d % 146097
        c0   == r0 \div 36524
        c    == IF c0 = 4 THEN 3 ELSE c0
        r1   == r0 - c * 36524
        q0   == r1 \div 1461
        q    == IF q0 = 25 THEN 24 ELSE q0
        r2   == r1 - q * 1461
        y0   == r2 \div 365
        y    == IF y0 = 4 THEN 3 ELSE y0
        r3   == r2 - y * 365
        year == 2000 + y + 4 * q + 100 * c + 400 * qc
        md   == MonthDay(r3, 1)
    IN  IF md.mon + 2 > 12
        THEN [year |-> year + 1, month |-> md.mon - 10, day |-> md.mday]
        ELSE [year |-> year, month |-> md.mon + 2, day |-> md.mday]

\* humantime::format_rfc3339_nanos(time).to_string():
\* YYYY-MM-DDThh:mm:ss.fffffffffZ
format_rfc3339_nanos(time) ==
    IF time.before THEN Panic("all times should be after the epoch")
    ELSE IF ~BigLe(time.secs, MAX_RFC3339_SECONDS)
    THEN Panic("a Display implementation returned an error unexpectedly")
    ELSE LET s  == BigDivSmall(time.secs, 60)
             m  == BigDivSmall(s.q, 60)
             h  == BigDivSmall(m.q, 24)
             cd == CivilFromDays(ToInt(h.q))
         IN  Ok(Pad(cd.year, 4) \o <<"-">> \o Pad(cd.month, 2) \o <<"-">>
                \o Pad(cd.day, 2) \o <<"T">> \o Pad(h.r, 2) \o <<":">>
                \o Pad(m.r, 2) \o <<":">> \o Pad(s.r, 2) \o <<".">>
                \o Pad(time.nanos, 9) \o <<"Z">>)

\* NTP64::to_string_rfc3339_lossy
to_string_rfc3339_lossy(checks, self) ==
    LET time == to_system_time_r(checks, self)
    IN  IF time.kind # "ok" THEN time
        ELSE WithOvf(format_rfc3339_nanos(time.val), time.ovf)

\* the number written by the digits s[i .. j], or -1 when one is no digit
RECURSIVE Digits(_, _, _, _)
Digits(s, i, j, acc) ==
    IF i > j THEN acc
    ELSE IF ~IsDigit(s[i]) THEN -1
    ELSE Digits(s, i + 1, j, acc * 10 + DigitVal(s[i]))

is_leap_year(y) == y % 4 = 0 /\ (y % 100 # 0 \/ y % 400 = 0)

YearDaysBefore == <<0, 31, 59, 90, 120, 151, 181, 212, 243, 273, 304, 334>>
MonthLengths == <<31, 28, 31, 30, 31, 30, 31, 31, 30, 31, 30, 31>>

\* the fraction loop of humantime's parser over s[i .. ]: it stops at a
\* final 'Z' and at a '+' that stands six characters before the end; the
\* nanoseconds, or -1 when another character is no digit
RECURSIVE FracNanos(_, _, _, _)
FracNanos(s, i, mult, acc) ==
    IF i > Len(s) THEN acc
    ELSE IF s[i] = "Z" /\ i = Len(s) THEN acc
    ELSE IF s[i] = "+" /\ i = Len(s) - 5 THEN acc
    ELSE IF ~IsDigit(s[i]) THEN -1
    ELSE FracNanos(s, i + 1, mult \div 10, acc + mult * DigitVal(s[i]))

\* the characters of "+00:00"
UtcOffset == <<"+", "0", "0", ":", "0", "0">>

ends_with(s, suffix) ==
    /\ Len(s) >= Len(suffix)
    /\ SubSeq(s, Len(s) - Len(suffix) + 1, Len(s)) = suffix

\* humantime::parse_rfc3339_weak(s), which humantime::parse_rfc3339 ends in
humantime_parse_rfc3339_weak(s) ==
    IF Len(s) < 19 THEN Err("InvalidFormat")
    ELSE IF s[5] # "-" \/ s[8] # "-" \/ s[11] \notin {"T", " "}
            \/ s[14] # ":" \/ s[17] # ":" THEN Err("InvalidFormat")
    ELSE LET year   == Digits(s, 1, 4, 0)
             month  == Digits(s, 6, 7, 0)
             day    == Digits(s, 9, 10, 0)
             hour   == Digits(s, 12, 13, 0)
             minute == Digits(s, 15, 16, 0)
             sec0   == Digits(s, 18, 19, 0)
         IN  IF \E x \in {year, month, day, hour, minute, sec0} : x < 0
             THEN Err("InvalidDigit")
             ELSE IF year < 1970 \/ hour > 23 \/ minute > 59 \/ sec0 > 60
             THEN Err("OutOfRange")
             ELSE IF month \notin 1..12 THEN Err("OutOfRange")
             ELSE LET second == IF sec0 = 60 THEN 59 ELSE sec0
                      leap_years == ((year - 1) - 1968) \div 4 - ((year - 1) - 1900) \div 100
                                    + ((year - 1) - 1600) \div 400
                      leap  == is_leap_year(year)
                      mdays == IF month = 2 /\ leap THEN 29 ELSE MonthLengths[month]
                      ydays == YearDaysBefore[month] + (day - 1)
                               + (IF leap /\ month > 2 THEN 1 ELSE 0)
                      days  == (year - 1970) * 365 + leap_years + ydays
                      time  == second + minute * 60 + hour * 3600
                      frac  == Len(s) >= 20 /\ s[20] = "."
                      nanos == IF frac THEN FracNanos(s, 21, 100000000, 0) ELSE 0
                      tail  == SubSeq(s, 20, Len(s))
                      total_seconds ==
                          BigAdd(FromInt(time),
                                 BigMulSmall(BigMulSmall(BigMulSmall(FromInt(days), 24), 60), 60))
                  IN  IF day > mdays \/ day = 0 THEN Err("OutOfRange")
                      ELSE IF nanos < 0 THEN Err("InvalidDigit")
                      ELSE IF ~frac /\ Len(s) # 19
                              /\ (Len(s) > 25 \/ (s[20] # "Z" /\ tail # UtcOffset))
                      THEN Err("InvalidFormat")
                      ELSE IF ~BigLe(total_seconds, MAX_RFC3339_SECONDS) THEN Err("OutOfRange")
                      ELSE Ok([before |-> FALSE, secs |-> total_seconds, nanos |-> nanos])

\* humantime::parse_rfc3339(s): a 'T' between date and time and a final 'Z'
\* or "+00:00", then the weak parser
humantime_parse_rfc3339(s) ==
    IF Len(s) < 20 THEN Err("InvalidFormat")
    ELSE IF s[11] # "T" \/ (s[Len(s)] # "Z" /\ ~ends_with(s, UtcOffset))
    THEN Err("InvalidFormat")
    ELSE humantime_parse_rfc3339_weak(s)

\* NTP64::parse_rfc3339
parse_rfc3339(checks, s) ==
    LET parsed == humantime_parse_rfc3339(s)
    IN  IF parsed.kind = "ok"
        THEN LET d == duration_since_epoch(parsed.val)
             IN  IF d.kind = "ok" THEN from_Duration(checks, d.val)
                 ELSE Err(<<"Failed to parse '", s, "' : ", d.val>>)
        ELSE Err(<<"Failed to parse '", s, "' : invalid RFC3339 format">>)

\* a Display that reads the alternate flag the wrong way round
fmt_Display_flag_inverted(has_std, checks, self, alternate) ==
    IF ~alternate
    THEN IF has_std THEN to_string_rfc3339_lossy(checks, self) ELSE Ok(fmt_u64(self))
    ELSE Ok(fmt_u64(self))

\* impl fmt::Display for NTP64
fmt_Display(has_std, checks, self, alternate) ==
    IF alternate
    THEN IF has_std THEN to_string_rfc3339_lossy(checks, self) ELSE Ok(fmt_u64(self))
    ELSE Ok(fmt_u64(self))

\* a Debug that follows the alternate flag as Display does
fmt_Debug_as_Display(self, alternate) ==
    IF alternate THEN to_string_rfc3339_lossy(FALSE, self) ELSE Ok(fmt_u64(self))

\* impl fmt::Debug for NTP64
fmt_Debug(self, alternate) == Ok(fmt_u64(self))

(***************************************************************************)
(* Inputs                                                                  *)
(***************************************************************************)
\* how far the sampled values reach from each edge value
Spread == 2
\* how many fractions and nanosecond counts are taken across the range
NumFrac == 8
NumNano == 8
\* the strings over StrAlphabet that are parsed, by length
MaxStrLen == 2

U64_MAX == <<65535, 65535, 65535, 65535>>
\* the timestamp of the example in the documentation of Display
DocExample == <<23052, 56392, 52214, 26242>>

Compose(secs, frac) == BigAdd(Shl32(secs), frac)

FracSamples ==
    {FromInt(i) : i \in 0..Spread}
    \cup {<<65535 - i, 65535>> : i \in 0..Spread}
    \cup {<<i, 32768>> : i \in 0..Spread}
    \cup {<<65535 - i, 32767>> : i \in 0..Spread}
    \cup {BigLow(BigMulSmall(BigMulSmall(FromInt(k), 31337), 30011), 2) : k \in 1..NumFrac}

SecSamples == {<<>>, <<1>>, FromInt(10000), <<52214, 26242>>, <<65535, 65535>>}

Timestamps == {Compose(s, f) : s \in SecSamples, f \in FracSamples} \cup {DocExample}

\* the operands of the arithmetic and of the comparisons
Operands ==
    {FromInt(i) : i \in 0..Spread}
    \cup {BigSub(U64_MAX, FromInt(i)) : i \in 0..Spread}
    \cup {<<0, 0, 1>>, <<0, 0, 0, 32768>>, DocExample}

Neighbours(x) ==
    {x} \cup (IF x = U64_MAX THEN {} ELSE {BigAdd(x, <<1>>)})
        \cup (IF x = <<>> THEN {} ELSE {BigSub(x, <<1>>)})
        \cup (IF Len(x) = 4 THEN {BigShr(x, 2), Shl32(BigShr(x, 2))} ELSE {})

NanoSamples ==
    (0..Spread)
    \cup {NANO_PER_SEC - 1 - i : i \in 0..Spread}
    \cup {500000000 + i : i \in 0..Spread}
    \cup {499999999 - i : i \in 0..Spread}
    \cup {(k * 61803399) % NANO_PER_SEC : k \in 1..NumNano}

DurationSecs ==
    SecSamples
    \cup {<<65535 - i, 65535>> : i \in 0..Spread}
    \cup {<<i, 0, 1>> : i \in 0..Spread}
    \cup {MAX_RFC3339_SECONDS, U64_MAX}

Durations == {[secs |-> s, nanos |-> n] : s \in DurationSecs, n \in NanoSamples}

StrAlphabet == {"0", "1", "9", "+", "-", "a", " "}

RECURSIVE StringsOfLen(_)
StringsOfLen(n) ==
    IF n = 0 THEN {<<>>}
    ELSE {<<c>> \o s : c \in StrAlphabet, s \in StringsOfLen(n - 1)}

ShortStrings == UNION {StringsOfLen(n) : n \in 0..MaxStrLen}

\* decimal literals around the sampled values and around 2^64, and what
\* a character before, inside or after makes of them
DecimalNumbers ==
    Timestamps \cup Operands \cup {BigAdd(U64_MAX, FromInt(i)) : i \in 1..(Spread + 1)}

DecimalStrings ==
    ShortStrings
    \cup UNION {LET d == fmt_u64(v)
                IN  {d, <<"+">> \o d, <<"-">> \o d, <<"0">> \o d, <<"0", "0">> \o d,
                     <<"+", "0">> \o d, <<" ">> \o d, d \o <<" ">>, d \o <<"0">>,
                     d \o <<"a">>, <<Head(d)>> \o <<"_">> \o Tail(d)}
                : v \in DecimalNumbers}

\* instants that calendar literals denote, below and above the 32-bit seconds
CalendarInstants ==
    {[before |-> FALSE, secs |-> s, nanos |-> n] :
        s \in DurationSecs \ {U64_MAX}, n \in {0, 1, 860479000, NANO_PER_SEC - 1}}

Replace(s, i, c) == [s EXCEPT ![i] = c]

\* calendar literals, and strings that are none
CalendarStrings ==
    {<<>>, <<"n", "o", "t", "-", "a", "-", "d", "a", "t", "e">>}
    \cup UNION {LET c == format_rfc3339_nanos(x).val
                IN  {c,
                     SubSeq(c, 1, 19) \o <<"Z">>,
                     SubSeq(c, 1, 23) \o <<"Z">>,
                     SubSeq(c, 1, 29),
                     SubSeq(c, 1, 19),
                     c \o <<"Z">>,
                     SubSeq(c, 1, 29) \o UtcOffset,
                     SubSeq(c, 1, 19) \o UtcOffset,
                     SubSeq(c, 1, 21) \o <<"+", "0", "0", "0", "0", "Z">>,
                     SubSeq(c, 1, 21) \o <<"+", "0", "0", "0", "Z">>,
                     SubSeq(c, 1, 19) \o <<"Z", "Z">>,
                     SubSeq(c, 1, 19) \o <<"Z", "a", "b", " ", "Z">>,
                     SubSeq(c, 1, 19) \o <<"Z", "0", "0", ":", "0", "0", "Z">>,
                     SubSeq(c, 1, 19) \o <<"-", "0", "0", ":", "0", "0">>,
                     Replace(c, 11, " "),
                     Replace(c, 11, "t"),
                     Replace(c, 5, "/"),
                     Replace(c, 20, ","),
                     Replace(c, 25, "x"),
                     Replace(c, 19, "x"),
                     Replace(Replace(c, 6, "1"), 7, "3"),
                     Replace(Replace(c, 9, "3"), 10, "2"),
                     Replace(Replace(c, 9, "0"), 10, "0"),
                     Replace(Replace(c, 12, "2"), 13, "4"),
                     Replace(Replace(c, 18, "6"), 19, "0"),
                     Replace(Replace(c, 18, "6"), 19, "1"),
                     <<"1", "9", "6", "9">> \o SubSeq(c, 5, 30),
                     <<"0", "0", "0", "0">> \o SubSeq(c, 5, 30)}
                : x \in CalendarInstants}

(***************************************************************************)
(* The state machine: a build, a timestamp, and one operation on it.       *)
(***************************************************************************)
None == [kind |-> "none", val |-> <<>>, ovf |-> FALSE]

Init ==
    /\ std \in BOOLEAN
    /\ overflow_checks \in BOOLEAN
    /\ t \in Timestamps
    /\ op = "none"
    /\ arg = <<>>
    /\ res = None

\* run operation o with argument a and outcome r, leaving the timestamp
Ran(o, a, r) ==
    /\ op = "none"
    /\ op' = o
    /\ arg' = a
    /\ res' = r
    /\ UNCHANGED <<std, overflow_checks, t>>

AsSecs == Ran("as_secs", <<>>, Ok(as_secs(t)))

SubsecNanos == Ran("subsec_nanos", <<>>, subsec_nanos_r(overflow_checks, t))

ToDuration == Ran("to_duration", <<>>, to_duration_r(overflow_checks, t))

ToSystemTime ==
    /\ std
    /\ Ran("to_system_time", <<>>, to_system_time_r(overflow_checks, t))

ToStringRfc3339Lossy ==
    /\ std
    /\ Ran("to_string_rfc3339_lossy", <<>>, to_string_rfc3339_lossy(overflow_checks, t))

AddForms == {"val_val", "ref_val", "val_ref", "ref_ref", "u64"}

Add ==
    \E form \in AddForms, other \in Operands \cup Neighbours(t) :
        Ran("add", [form |-> form, other |-> other],
            CASE form = "val_val" -> add(overflow_checks, t, other)
              [] form = "ref_val" -> add_ref_val(overflow_checks, t, other)
              [] form = "val_ref" -> add_val_ref(overflow_checks, t, other)
              [] form = "ref_ref" -> add_ref_ref(overflow_checks, t, other)
              [] form = "u64"     -> add_u64(overflow_checks, t, other))

Sub ==
    \E form \in AddForms, other \in Operands \cup Neighbours(t) :
        Ran("sub", [form |-> form, other |-> other],
            CASE form = "val_val" -> sub(overflow_checks, t, other)
              [] form = "ref_val" -> sub_ref_val(overflow_checks, t, other)
              [] form = "val_ref" -> sub_val_ref(overflow_checks, t, other)
              [] form = "ref_ref" -> sub_ref_ref(overflow_checks, t, other)
              [] form = "u64"     -> sub_u64(overflow_checks, t, other))

\* t += other and t -= other: the binding is replaced by the result; arg
\* keeps the value it held
AddAssign ==
    \E other \in Operands \cup Neighbours(t) :
        LET r == add_assign(overflow_checks, t, other)
        IN  /\ op = "none"
            /\ op' = "add_assign"
            /\ arg' = [self |-> t, other |-> other]
            /\ res' = r
            /\ t' = IF r.kind = "ok" THEN r.val ELSE t
            /\ UNCHANGED <<std, overflow_checks>>

SubAssign ==
    \E other \in Operands \cup Neighbours(t) :
        LET r == sub_assign(overflow_checks, t, other)
        IN  /\ op = "none"
            /\ op' = "sub_assign"
            /\ arg' = [self |-> t, other |-> other]
            /\ res' = r
            /\ t' = IF r.kind = "ok" THEN r.val ELSE t
            /\ UNCHANGED <<std, overflow_checks>>

Compare ==
    \E other \in Operands \cup Neighbours(t) :
        Ran("cmp", other, Ok(cmp(t, other)))

Display ==
    \E alternate \in BOOLEAN :
        Ran("display", alternate, fmt_Display(std, overflow_checks, t, alternate))

Debug ==
    \E alternate \in BOOLEAN :
        Ran("debug", alternate, fmt_Debug(t, alternate))

\* The associated functions take no timestamp: they run where the timestamp
\* is NTP64::default().
FromDuration ==
    /\ t = <<>>
    /\ \E d \in Durations : Ran("from_duration", d, from_Duration(overflow_checks, d))

FromStr ==
    /\ std
    /\ t = <<>>
    /\ \E s \in DecimalStrings : Ran("from_str", s, from_str(s))

ParseRfc3339 ==
    /\ std
    /\ t = <<>>
    /\ \E s \in CalendarStrings : Ran("parse_rfc3339", s, parse_rfc3339(overflow_checks, s))

Next ==
    \/ AsSecs
    \/ SubsecNanos
    \/ ToDuration
    \/ ToSystemTime
    \/ ToStringRfc3339Lossy
    \/ Add
    \/ Sub
    \/ AddAssign
    \/ SubAssign
    \/ Compare
    \/ Display
    \/ Debug
    \/ FromDuration
    \/ FromStr
    \/ ParseRfc3339

Spec == Init /\ [][Next]_vars

(***************************************************************************)
(* What the properties are stated with, computed apart from the code's     *)
(* own arithmetic where the property is about that arithmetic.             *)
(***************************************************************************)
\* the number a string of digits denotes, of any size
\* (the test of n has each step computed before the next)
RECURSIVE DecValueFrom(_, _)
DecValueFrom(s, acc) ==
    IF s = <<>> THEN acc
    ELSE LET n == BigAdd(BigMulSmall(acc, 10), FromInt(DigitVal(Head(s))))
         IN  IF n = <<>> THEN DecValueFrom(Tail(s), <<>>)
             ELSE DecValueFrom(Tail(s), n)

DecValue(s) == DecValueFrom(s, <<>>)
AllDigits(s) == \A i \in 1..Len(s) : IsDigit(s[i])

\* a < b read off the canonical decimal numerals: the shorter is the smaller,
\* and of two of one length the one with the smaller digit where they first differ
NumeralLess(x, y) ==
    \/ Len(x) < Len(y)
    \/ /\ Len(x) = Len(y)
       /\ \E i \in 1..Len(x) :
            /\ \A j \in 1..(i - 1) : x[j] = y[j]
            /\ DigitVal(x[i]) < DigitVal(y[i])

IntLess(a, b) == NumeralLess(fmt_u64(a), fmt_u64(b))

\* |a - b|
Distance(a, b) == IF BigLe(a, b) THEN BigSub(b, a) ELSE BigSub(a, b)

\* n = floor(x * num / den), by n * den <= x * num < (n + 1) * den
IsFloorNanosOfFrac(n, frac) ==
    /\ BigLe(Shl32(FromInt(n)), MulNanoPerSec(frac))
    /\ BigLt(MulNanoPerSec(frac), Shl32(FromInt(n + 1)))

IsFloorFracOfNanos(frac, n) ==
    /\ BigLe(MulNanoPerSec(frac), Shl32(FromInt(n)))
    /\ BigLt(Shl32(FromInt(n)), MulNanoPerSec(BigAdd(frac, <<1>>)))

\* s has the shape YYYY-MM-DDThh:mm:ss.fffffffffZ
IsCalendarForm(s) ==
    /\ Len(s) = 30
    /\ s[5] = "-" /\ s[8] = "-" /\ s[11] = "T" /\ s[14] = ":" /\ s[17] = ":"
    /\ s[20] = "." /\ s[30] = "Z"
    /\ \A i \in (1..29) \ {5, 8, 11, 14, 17, 20} : IsDigit(s[i])

\* s is the decimal string of the raw value x
IsDecimalOf(s, x) ==
    /\ s # <<>>
    /\ AllDigits(s)
    /\ (Len(s) > 1 => s[1] # "0")
    /\ DecValue(s) = x

(***************************************************************************)
(* C1: for every raw value, from_str of the default (decimal) rendering    *)
(* succeeds and returns the timestamp that was rendered.                   *)
(***************************************************************************)
C1_DecimalRoundTrip ==
    (std /\ op = "display" /\ arg = FALSE) =>
        /\ res.kind = "ok"
        /\ from_str(res.val) = Ok(t)

C1_Witness ==
    /\ std /\ op = "display" /\ arg = FALSE
    /\ t = U64_MAX
    /\ Len(res.val) = 20
    /\ from_str(res.val) = Ok(U64_MAX)

(***************************************************************************)
(* C2: the order of timestamps is the unsigned integer order of their raw  *)
(* values: < iff the raw value is smaller, == iff they are the same value, *)
(* exactly one of <, ==, > for a pair, whatever the seconds and fractions. *)
(***************************************************************************)
C2_OrderIsIntegerOrder ==
    (op = "cmp") =>
        /\ res.kind = "ok"
        /\ (res.val = "Less") = IntLess(t, arg)
        /\ (res.val = "Greater") = IntLess(arg, t)
        /\ (res.val = "Equal") = (fmt_u64(t) = fmt_u64(arg))
        /\ lt(t, arg) = IntLess(t, arg)
        /\ gt(t, arg) = IntLess(arg, t)
        /\ eq(t, arg) = (fmt_u64(t) = fmt_u64(arg))
        /\ Cardinality({r \in {"lt", "eq", "gt"} :
                          \/ r = "lt" /\ lt(t, arg)
                          \/ r = "eq" /\ eq(t, arg)
                          \/ r = "gt" /\ gt(t, arg)}) = 1

\* a pair whose seconds order one way and whose fractions order the other
C2_Witness ==
    /\ op = "cmp"
    /\ res.val = "Less"
    /\ IntLess(as_secs(t), as_secs(arg))
    /\ IntLess(AndFracMask(arg), AndFracMask(t))

(***************************************************************************)
(* C3: for a duration of at most 2^32 - 1 seconds, NTP64::from has the raw *)
(* value ((secs << 32) | floor(nanos * 2^32 / 10^9)) + 1.                  *)
(***************************************************************************)
C3_FromDurationValue ==
    (op = "from_duration" /\ Len(arg.secs) <= 2) =>
        /\ res.kind = "ok"
        /\ res.val # <<>>
        /\ LET composed == BigSub(res.val, <<1>>)
           IN  /\ Shr32(composed) = arg.secs
               /\ IsFloorFracOfNanos(BigLow(composed, 2), arg.nanos)

C3_Witness ==
    /\ op = "from_duration"
    /\ arg = [secs |-> FromInt(10000), nanos |-> 500000000]
    /\ res = Ok(<<1, 32768, 10000>>)

(***************************************************************************)
(* C4: duration -> timestamp -> duration gives the duration back to the    *)
(* nanosecond: the seconds and the nanoseconds of NTP64::from(d) are those *)
(* of d, and its calendar rendering is that of the instant epoch + d.      *)
(***************************************************************************)
C4_DurationRoundTrip ==
    (op = "from_duration" /\ Len(arg.secs) <= 2) =>
        /\ res.kind = "ok"
        /\ as_secs(res.val) = arg.secs
        /\ subsec_nanos(res.val) = arg.nanos
        /\ to_duration_r(overflow_checks, res.val) = Ok(arg)
        /\ to_string_rfc3339_lossy(overflow_checks, res.val)
             = format_rfc3339_nanos([before |-> FALSE, secs |-> arg.secs, nanos |-> arg.nanos])

\* the largest fraction a duration gives: the + 1 stays below the seconds
C4_Witness ==
    /\ op = "from_duration"
    /\ arg = [secs |-> MAX_NB_SEC, nanos |-> NANO_PER_SEC - 1]
    /\ res.kind = "ok"
    /\ to_duration(res.val) = arg

(***************************************************************************)
(* C5: NTP64::from(duration) panics exactly when the duration's seconds    *)
(* exceed 2^32 - 1; otherwise it returns a timestamp and no step of its    *)
(* 64-bit computation overflows.                                           *)
(***************************************************************************)
C5_FromDurationAbortsIffTooLong ==
    (op = "from_duration") =>
        /\ res.kind \in {"ok", "panic"}
        /\ (res.kind = "panic") = (Len(arg.secs) > 2)
        /\ ~res.ovf

C5_Witness ==
    /\ op = "from_duration"
    /\ overflow_checks
    /\ arg = [secs |-> MAX_NB_SEC, nanos |-> NANO_PER_SEC - 1]
    /\ res.kind = "ok"
    /\ ~res.ovf

C5_WitnessAbort ==
    /\ op = "from_duration"
    /\ arg.secs = <<0, 0, 1>>
    /\ res.kind = "panic"

(***************************************************************************)
(* C6: every form of a + b, a - b, a + k, a - k, += and -= never fails     *)
(* and yields the exact sum or difference reduced modulo 2^64, the forms   *)
(* on references and the compound forms agreeing with the operator on      *)
(* values.                                                                 *)
(***************************************************************************)
\* r is the exact a + b, or a - b, reduced modulo 2^64
IsSumMod64(r, a, b) ==
    /\ FitsU64(r)
    /\ \/ r = BigAdd(a, b)
       \/ BigAdd(r, TWO64) = BigAdd(a, b)

IsDifferenceMod64(r, a, b) ==
    /\ FitsU64(r)
    /\ \/ BigAdd(r, b) = a
       \/ BigAdd(r, b) = BigAdd(a, TWO64)

C6_ArithmeticTotalWrapping ==
    /\ (op = "add") =>
          /\ res.kind = "ok"
          /\ IsSumMod64(res.val, t, arg.other)
          /\ res = add(overflow_checks, t, arg.other)
    /\ (op = "add_assign") =>
          /\ res.kind = "ok"
          /\ IsSumMod64(res.val, arg.self, arg.other)
          /\ t = res.val
          /\ res = add(overflow_checks, arg.self, arg.other)
    /\ (op = "sub") =>
          /\ res.kind = "ok"
          /\ IsDifferenceMod64(res.val, t, arg.other)
          /\ res = sub(overflow_checks, t, arg.other)
    /\ (op = "sub_assign") =>
          /\ res.kind = "ok"
          /\ IsDifferenceMod64(res.val, arg.self, arg.other)
          /\ t = res.val
          /\ res = sub(overflow_checks, arg.self, arg.other)

(***************************************************************************)
(* C7: from_str returns a ParseNTP64Error when the string is empty, holds  *)
(* a character that is no decimal digit, or denotes more than 2^64 - 1,    *)
(* and otherwise the timestamp whose raw value the string denotes.         *)
(***************************************************************************)
C7_RejectsEveryNonLiteral ==
    (op = "from_str") =>
        LET bad == arg = <<>> \/ ~AllDigits(arg) \/ ~FitsU64(DecValue(arg))
        IN  /\ res.kind \in {"ok", "err"}
            /\ (res.kind = "err") = bad
            /\ (res.kind = "ok") => res.val = DecValue(arg)

(***************************************************************************)
(* C7, as amended: from_str accepts one '+' before the digits.  With body  *)
(* the string less one leading '+', it returns a ParseNTP64Error when body *)
(* is empty, holds a character that is no decimal digit, or denotes more   *)
(* than 2^64 - 1, and otherwise the timestamp whose raw value body denotes.*)
(***************************************************************************)
C7_RejectsAllButSignedLiterals ==
    (op = "from_str") =>
        LET body == IF arg # <<>> /\ Head(arg) = "+" THEN Tail(arg) ELSE arg
            bad  == body = <<>> \/ ~AllDigits(body) \/ ~FitsU64(DecValue(body))
        IN  /\ res.kind \in {"ok", "err"}
            /\ (res.kind = "err") = bad
            /\ (res.kind = "ok") => res.val = DecValue(body)

\* a literal with a sign and a leading zero is taken; 2^64 is not
C7_Witness ==
    /\ op = "from_str"
    /\ arg = <<"+", "0">> \o fmt_u64(U64_MAX)
    /\ res = Ok(U64_MAX)
    /\ from_str(fmt_u64(TWO64)).kind = "err"

(***************************************************************************)
(* C8: parse_rfc3339 returns a ParseNTP64Error when the string is no valid *)
(* RFC3339 literal or its instant is before 1970-01-01T00:00:00Z, and      *)
(* otherwise NTP64::from(instant - epoch); it has no other outcome: no     *)
(* string makes it abort.                                                  *)
(***************************************************************************)
C8_ParseRfc3339NeverAborts ==
    (op = "parse_rfc3339") =>
        LET parsed == humantime_parse_rfc3339(arg)
        IN  /\ res.kind \in {"ok", "err"}
            /\ (res.kind = "err") = (parsed.kind # "ok" \/ parsed.val.before)
            /\ (res.kind = "ok") =>
                  res = from_Duration(overflow_checks,
                                      [secs |-> parsed.val.secs, nanos |-> parsed.val.nanos])

(***************************************************************************)
(* C9: in every build, Display without the alternate flag and Debug with   *)
(* or without it give the decimal string of the raw value, and Display     *)
(* with the alternate flag gives the calendar form of epoch +              *)
(* to_duration(), so that the two renderings of a value differ.            *)
(***************************************************************************)
IsCalendarOf(s, x) ==
    /\ IsCalendarForm(s)
    /\ humantime_parse_rfc3339(s) = Ok(to_system_time(x))

C9_RenderingSelection ==
    /\ (op = "debug") => res.kind = "ok" /\ IsDecimalOf(res.val, t)
    /\ (op = "display" /\ arg = FALSE) => res.kind = "ok" /\ IsDecimalOf(res.val, t)
    /\ (op = "display" /\ arg = TRUE) =>
          /\ res.kind = "ok"
          /\ IsCalendarOf(res.val, t)
          /\ res.val # fmt_Display(std, overflow_checks, t, FALSE).val

(***************************************************************************)
(* C9, as amended: Display without the alternate flag and Debug with or    *)
(* without it give the decimal string of the raw value in every build;     *)
(* Display with the alternate flag gives the calendar form of epoch +      *)
(* to_duration() in a build with the std feature, where it differs from    *)
(* the default rendering of every value, and the decimal string in a build *)
(* without it.                                                             *)
(***************************************************************************)
C9_RenderingSelectionByBuild ==
    /\ (op = "debug") => res.kind = "ok" /\ IsDecimalOf(res.val, t)
    /\ (op = "display" /\ arg = FALSE) => res.kind = "ok" /\ IsDecimalOf(res.val, t)
    /\ (op = "display" /\ arg = TRUE /\ std) =>
          /\ res.kind = "ok"
          /\ IsCalendarOf(res.val, t)
          /\ res.val # fmt_Display(std, overflow_checks, t, FALSE).val
    /\ (op = "display" /\ arg = TRUE /\ ~std) =>
          /\ res.kind = "ok"
          /\ IsDecimalOf(res.val, t)

C9_Witness ==
    /\ op = "display" /\ arg = TRUE /\ std
    /\ t = DocExample
    /\ res.val = <<"2", "0", "2", "4", "-", "0", "7", "-", "0", "1", "T",
                   "1", "5", ":", "3", "2", ":", "0", "6", ".",
                   "8", "6", "0", "4", "7", "9", "0", "0", "0", "Z">>
    /\ fmt_Debug(t, TRUE).val = fmt_u64(DocExample)

(***************************************************************************)
(* C10: timestamp -> duration -> timestamp loses little: subsec_nanos is   *)
(* floor(fraction * 10^9 / 2^32), below 10^9; to_duration never fails;     *)
(* NTP64::from(to_duration()) has the same seconds and a raw value within  *)
(* 4 of the original, and so has the parse of the calendar rendering.      *)
(***************************************************************************)
C10_TimestampRoundTripBounded ==
    (op = "to_duration") =>
        /\ res.kind = "ok"
        /\ ~res.ovf
        /\ res.val.secs = as_secs(t)
        /\ res.val.nanos = subsec_nanos(t)
        /\ res.val.nanos < NANO_PER_SEC
        /\ IsFloorNanosOfFrac(res.val.nanos, AndFracMask(t))
        /\ LET w == from_Duration(overflow_checks, res.val)
           IN  /\ w.kind = "ok"
               /\ as_secs(w.val) = as_secs(t)
               /\ BigLe(Distance(w.val, t), <<4>>)
               /\ std => LET c == to_string_rfc3339_lossy(overflow_checks, t)
                         IN  /\ c.kind = "ok"
                             /\ parse_rfc3339(overflow_checks, c.val) = w

\* a timestamp that does not come back: the round trip lands 3 below it
C10_Witness ==
    /\ op = "to_duration"
    /\ LET w == from_Duration(overflow_checks, res.val)
       IN  /\ w.kind = "ok"
           /\ BigLt(w.val, t)
           /\ Distance(w.val, t) = <<3>>

\* and one that lands 1 above
C10_WitnessAbove ==
    /\ op = "to_duration"
    /\ from_Duration(overflow_checks, res.val) = Ok(BigAdd(t, <<1>>))

====
